---- MODULE Spec2Model ----
(***************************************************************************)
(* Model of the Siemens S7 simulator, simuladores/Simulador-S7/siemens.py. *)
(*                                                                         *)
(* The driver (main) is a sequential process whose position is pc; an S7   *)
(* client served by the snap7 server thread reads the registered areas     *)
(* concurrently; the operator may interrupt the driver (KeyboardInterrupt).*)
(*                                                                         *)
(* Python floats are modelled as fixed-point integers.  Units:             *)
(*   time              1 unit = 50 ms (the 0.05 s of line 123)             *)
(*   sine values       1 unit = 1/1000                                     *)
(*   pv                1 unit = 1/4 W                                      *)
(*   load_w,p_bat,psys 1 unit = 1/20 W                                     *)
(*   vbus, vout        1 unit = 0.01 V                                     *)
(*   vbat              1 unit = 0.0001 V                                   *)
(*   ibus, iout, ibat  1 unit = 1 mA                                       *)
(*   ir .. il3n        1 unit = 0.1 mA                                     *)
(*   soc*              1 unit = 1e-6 percent                               *)
(*   yield_kwh         1 unit = 1/(80 * 3_600_000) kWh (= 1/4 W * 50 ms)   *)
(* Quotients are floored to the unit.  The rounding error of the double    *)
(* arithmetic itself is below these resolutions and is not modelled; the   *)
(* rounding of struct.pack(">f") to 24 significant bits is modelled (F32). *)
(***************************************************************************)
EXTENDS Integers, Sequences, FiniteSets, TLC

VARIABLES
    pc,               \* position of main()
    args,             \* parsed command line (line 56): [cycle_ms]
    clock,            \* value time.monotonic() returns when read now
    sigint,           \* the operator interrupt has been delivered
    server,           \* snap7 server: [cpu, running, stop_called, destroyed]
    db_sizes,         \* line 88
    db_memory,        \* line 91: db -> [size, real : offset -> stored value]
    max_power_today,  \* line 94
    yield_kwh,        \* line 95
    last_ts,          \* line 96
    cycle_s,          \* line 123
    loc,              \* locals of the current loop iteration (lines 127-176)
    wi,               \* index of the next tag write of the iteration (180-203)
    cycles,           \* number of iterations started
    wstamp,           \* history: db -> offset -> iteration of the last write
    pvSeen,           \* history: pv values computed so far
    yieldPrev,        \* history: yield_kwh before the current iteration
    lastRead          \* result of the client's latest area read

vars == <<pc, args, clock, sigint, server, db_sizes, db_memory,
          max_power_today, yield_kwh, last_ts, cycle_s, loc, wi, cycles,
          wstamp, pvSeen, yieldPrev, lastRead>>

-----------------------------------------------------------------------------
(* Bounds of the model *)

MaxCycles == 5

\* Longest time (50 ms units) spent between line 96 and the first iteration.
MaxStartupDelay == 10

\* Values of --cycle-ms explored (an int; default 500).
CycleMsSamples == {-100, 500, 500000}

\* Instants (in 50 ms units) at which the monotonic clock is sampled.
TimeSeq == <<0, 10, 10200, 21000, 31400, 52600>>

TimeSamples == {TimeSeq[i] : i \in 1..Len(TimeSeq)}

\* How many sample instants a blocking call may let pass beyond the first
\* one at which it can return.
MaxSkip == 0

\* The clock readings possible once at least `lo` has been reached.
Readings(lo) ==
    {t \in TimeSamples :
        /\ t >= lo
        /\ Cardinality({u \in TimeSamples : lo <= u /\ u < t}) <= MaxSkip}

\* round(1000 * sin(2*pi*now/period + phase)) at the instants of TimeSeq,
\* for each sine of lines 133-169.
SinTable ==
    [pv   |-> <<0, 52, 0, 0, 866, -866>>,        \* period 60 s
     vbus |-> <<0, 125, 588, 0, -951, 951>>,    \* period 25 s
     vout |-> <<0, 156, 0, 0, 0, 0>>,           \* period 20 s
     vbat |-> <<0, 78, -1000, 1000, 1000, -1000>>, \* period 40 s
     load |-> <<0, 95, 282, -910, -458, -945>>, \* period 33 s
     ir   |-> <<0, 184, 0, -996, 798, -962>>,   \* period 17 s
     is_  |-> <<841, 919, 8, 469, -967, -483>>, \* period 19 s, +1.0
     it   |-> <<909, 844, 49, -184, -477, -864>>] \* period 23 s, +2.0

Sin(sig, now) ==
    LET i == CHOOSE j \in 1..Len(TimeSeq) : TimeSeq[j] = now
    IN  SinTable[sig][i]

-----------------------------------------------------------------------------
(* Helpers *)

Max(a, b) == IF a >= b THEN a ELSE b

Min(a, b) == IF a <= b THEN a ELSE b

Abs(a) == IF a >= 0 THEN a ELSE 0 - a

SetMax(S) == CHOOSE x \in S : \A y \in S : y <= x

\* _clamp with min and max exchanged.
ClampSwapped(value, low, high) == Min(low, Max(high, value))

\* siemens.py:23-24
_clamp(value, low, high) == Max(low, Min(high, value))

\* Spacing of the 24-bit significands around the non-negative integer a.
RECURSIVE F32Ulp(_)
F32Ulp(a) == IF a < 16777216 THEN 1 ELSE 2 * F32Ulp(a \div 2)

\* struct.pack(">f", v): v rounded to the nearest float32, ties to even.
F32(v) ==
    LET a == Abs(v)
        u == F32Ulp(a)
        q == a \div u
        r == a % u
        n == IF 2 * r > u \/ (2 * r = u /\ q % 2 = 1) THEN q + 1 ELSE q
    IN  IF v >= 0 THEN n * u ELSE 0 - (n * u)

\* Stored images that decode to NaN and to +/-Infinity (lines 155-156);
\* every other stored integer decodes to itself.
NaNImage == 2147483647

InfImage == 2147483646

IsNanOrInf(x) == x = NaNImage \/ Abs(x) = InfImage

-----------------------------------------------------------------------------
(* Tag map, lines 59-86 *)

tags ==
    [d \in {49, 50, 51, 52} |->
       CASE d = 51 -> [Current |-> 0, Voltage |-> 8, Carga_Bateria |-> 12]
         [] d = 50 -> [PV_Power_In |-> 0, Current_Bus |-> 4, Voltage_Bus |-> 8,
                       Max_Power_Today |-> 12, Yield_Diario |-> 20]
         [] d = 49 -> [Current_Out |-> 24, Voltage_Out |-> 28]
         [] d = 52 -> [Current_R |-> 0, Current_S |-> 4, Current_T |-> 8,
                       Current_N |-> 12, Current_L1N |-> 156,
                       Current_L2N |-> 160, Current_L3N |-> 164,
                       Power_Sys |-> 172]]

DBs == DOMAIN tags

Offsets(d) == {tags[d][t] : t \in DOMAIN tags[d]}

\* _db_size_from_offsets taking the smallest offset.
DbSizeMin(offsets, extra_bytes) ==
    LET max_offset == IF offsets # {} THEN CHOOSE x \in offsets : \A y \in offsets : x <= y ELSE 0
    IN  max_offset + 4 + extra_bytes

\* siemens.py:27-30 (extra_bytes = 16)
_db_size_from_offsets(offsets, extra_bytes) ==
    LET max_offset == IF offsets # {} THEN SetMax(offsets) ELSE 0
    IN  max_offset + 4 + extra_bytes

\* _register_db over memory that is not cleared.
RegisterDirty(d, size) == [size |-> size, real |-> [o \in Offsets(d) |-> 1]]

\* siemens.py:33-38: a zero-initialised ctypes array of `size` bytes,
\* seen through the REAL fields of the tag map.
_register_db(d, size) == [size |-> size, real |-> [o \in Offsets(d) |-> 0]]

\* siemens.py:19-20: struct.pack_into raises struct.error past the end.
InRange(buf, byte_offset) == byte_offset >= 0 /\ byte_offset + 4 <= buf.size

_write_real_be(buf, byte_offset, value) ==
    [buf EXCEPT !.real[byte_offset] = F32(value)]

\* The write pass with line 188 writing Yield_Diario instead of
\* Max_Power_Today.
WriteSeqNoMax ==
    << <<51, "Current", "ibat">>, <<51, "Voltage", "vbat">>,
       <<51, "Carga_Bateria", "soc">>,
       <<50, "PV_Power_In", "pv">>, <<50, "Current_Bus", "ibus">>,
       <<50, "Voltage_Bus", "vbus">>,
       <<50, "Yield_Diario", "yield_out">>, <<50, "Yield_Diario", "yield_out">>,
       <<49, "Current_Out", "iout">>, <<49, "Voltage_Out", "vout">>,
       <<52, "Current_R", "ir">>, <<52, "Current_S", "is_">>,
       <<52, "Current_T", "it">>, <<52, "Current_N", "in_">>,
       <<52, "Current_L1N", "il1n">>, <<52, "Current_L2N", "il2n">>,
       <<52, "Current_L3N", "il3n">>, <<52, "Power_Sys", "psys">> >>

\* The eighteen writes of lines 180-203, in order: <<db, tag, local>>.
WriteSeq ==
    << <<51, "Current", "ibat">>, <<51, "Voltage", "vbat">>,
       <<51, "Carga_Bateria", "soc">>,
       <<50, "PV_Power_In", "pv">>, <<50, "Current_Bus", "ibus">>,
       <<50, "Voltage_Bus", "vbus">>,
       <<50, "Max_Power_Today", "max_out">>, <<50, "Yield_Diario", "yield_out">>,
       <<49, "Current_Out", "iout">>, <<49, "Voltage_Out", "vout">>,
       <<52, "Current_R", "ir">>, <<52, "Current_S", "is_">>,
       <<52, "Current_T", "it">>, <<52, "Current_N", "in_">>,
       <<52, "Current_L1N", "il1n">>, <<52, "Current_L2N", "il2n">>,
       <<52, "Current_L3N", "il3n">>, <<52, "Power_Sys", "psys">> >>

ValueOf(name) ==
    CASE name = "max_out"   -> max_power_today
      [] name = "yield_out" -> yield_kwh \div 288     \* in 1e-6 kWh
      [] OTHER              -> loc[name]

-----------------------------------------------------------------------------
(* Aggregators *)

\* The maximum overwritten by every pv.
MaxStepLast(max, pv) == pv

\* siemens.py:162-163
MaxStep(max, pv) == IF pv > max THEN pv ELSE max

\* The accumulator assigned instead of incremented.
YieldStepAssign(yield, pv, dt) == pv * dt

\* siemens.py:164.  (pv * dt) / 3_600_000 kWh with pv in 1/4 W and dt in
\* 50 ms is pv * dt units of 1/(80 * 3_600_000) kWh.
YieldStep(yield, pv, dt) == yield + pv * dt

\* siemens.py:151: 0.02 * (cycle_s / 0.5) percent, cycle_s in 50 ms units.
SocSpeed(cs) == (20000 * cs) \div 10

\* siemens.py:152: clamp((vbat - 48.0) / (55.0 - 48.0) * 100.0, 0, 100).
SocTarget(vbat) == _clamp(((vbat - 480000) * 10000) \div 7, 0, 100000000)

\* siemens.py:153-158
SocSeed(mem, soc_target) ==
    IF 51 \in DOMAIN mem /\ InRange(mem[51], tags[51].Carga_Bateria)
    THEN LET soc_now == mem[51].real[tags[51].Carga_Bateria]
         IN  IF IsNanOrInf(soc_now) THEN soc_target ELSE soc_now
    ELSE soc_target

\* siemens.py:159
SocStep(soc_now, soc_target, soc_speed) ==
    soc_now + _clamp(soc_target - soc_now, 0 - soc_speed, soc_speed)

\* siemens.py:128
Dt(now, last) == Max(0, now - last)

\* siemens.py:123: max(0.05, cycle_ms / 1000.0), in 50 ms units.
CycleS(cycle_ms) == Max(1, cycle_ms \div 50)

\* Lines 127-176: the values of one iteration, computed from the clock
\* reading `now` and the state left by the previous iterations.
Iteration(now) ==
    LET dt       == Dt(now, last_ts)
        pv       == _clamp(7 * Sin("pv", now) + 7000, 0, 18000)
        vbus     == 62000 + Sin("vbus", now)
        ibus     == IF pv > 40 THEN (pv * 25000) \div Max(vbus, 100) ELSE 0
        vout     == 22000 + (2 * Sin("vout", now)) \div 10
        iout     == _clamp(((pv * 25000) \div Max(vout, 100)) \div 3, 0, 25000)
        vbat     == 525000 + 8 * Sin("vbat", now)
        load_w   == 24000 + 6 * Sin("load", now)
        p_bat    == 5 * pv - load_w
        ibat     == _clamp((p_bat * 5000) \div (Max(vbat, 10000) \div 100),
                           0 - 80000, 80000)
        soc_speed  == SocSpeed(cycle_s)
        soc_target == SocTarget(vbat)
        soc_now    == SocSeed(db_memory, soc_target)
        soc        == SocStep(soc_now, soc_target, soc_speed)
        ir       == 120000 + 20 * Sin("ir", now)
        is_      == 110000 + 23 * Sin("is_", now)
        it       == 130000 + 17 * Sin("it", now)
        in_      == _clamp((Abs(ir + is_ + it) * 2) \div 100, 0, 50000)
    IN  [now |-> now, dt |-> dt, pv |-> pv, vbus |-> vbus, ibus |-> ibus,
         vout |-> vout, iout |-> iout, vbat |-> vbat, load_w |-> load_w,
         ibat |-> ibat, soc_speed |-> soc_speed, soc_target |-> soc_target,
         soc_now |-> soc_now, soc |-> soc, ir |-> ir, is_ |-> is_, it |-> it,
         in_ |-> in_, il1n |-> ir + 4000, il2n |-> is_ + 2000,
         il3n |-> it + 3000,
         psys |-> 5 * pv - _clamp(load_w, 0, 1999980)]

NoLocals == [f \in DOMAIN Iteration(0) |-> 0]

NoRead == [db |-> 0, ok |-> FALSE, real |-> <<>>, stamp |-> <<>>]

-----------------------------------------------------------------------------
(* The state at line 97: arguments parsed, sizes computed, server created *)

Init ==
    /\ pc = "start"
    /\ args \in [cycle_ms : CycleMsSamples]
    /\ clock = TimeSeq[1]
    /\ sigint = FALSE
    /\ server = [cpu |-> 0, running |-> FALSE, stop_called |-> FALSE,
                 destroyed |-> FALSE]
    /\ db_sizes = [d \in DBs |-> _db_size_from_offsets(Offsets(d), 16)]
    /\ db_memory = <<>>
    /\ max_power_today = 0
    /\ yield_kwh = 0
    /\ last_ts = TimeSeq[1]
    /\ cycle_s = 0
    /\ loc = NoLocals
    /\ wi = 0
    /\ cycles = 0
    /\ wstamp = [d \in DBs |-> [o \in Offsets(d) |-> 0]]
    /\ pvSeen = {}
    /\ yieldPrev = 0
    /\ lastRead = NoRead

-----------------------------------------------------------------------------
(* Driver *)

\* Lines 100-107: CPU to RUN, server.start(port) succeeds.
StartServer ==
    /\ pc = "start"
    /\ server' = [server EXCEPT !.cpu = 8, !.running = TRUE]
    /\ \E t \in TimeSamples :
         /\ clock <= t /\ t <= clock + MaxStartupDelay
         /\ clock' = t
    /\ pc' = "register"
    /\ UNCHANGED <<args, sigint, db_sizes, db_memory, max_power_today,
                   yield_kwh, last_ts, cycle_s, loc, wi, cycles, wstamp,
                   pvSeen, yieldPrev, lastRead>>

\* Lines 107-114: server.start raises (port in use); re-raised to line 223.
StartServerFails ==
    /\ pc = "start"
    /\ server' = [server EXCEPT !.cpu = 8]
    /\ pc' = "except"
    /\ UNCHANGED <<args, clock, sigint, db_sizes, db_memory, max_power_today,
                   yield_kwh, last_ts, cycle_s, loc, wi, cycles, wstamp,
                   pvSeen, yieldPrev, lastRead>>

\* Lines 115-116: one iteration of the registration loop, in sorted order.
RegisterNextDb ==
    /\ pc = "register"
    /\ LET todo == DBs \ DOMAIN db_memory
           d    == CHOOSE x \in todo : \A y \in todo : x <= y
       IN  /\ db_memory' = [x \in DOMAIN db_memory \cup {d} |->
                              IF x = d THEN _register_db(d, db_sizes[d])
                                       ELSE db_memory[x]]
           /\ pc' = IF todo = {d} THEN "configure" ELSE "register"
    /\ UNCHANGED <<args, clock, sigint, server, db_sizes, max_power_today,
                   yield_kwh, last_ts, cycle_s, loc, wi, cycles, wstamp,
                   pvSeen, yieldPrev, lastRead>>

\* Lines 118-124
Configure ==
    /\ pc = "configure"
    /\ cycle_s' = CycleS(args.cycle_ms)
    /\ pc' = "tick"
    /\ UNCHANGED <<args, clock, sigint, server, db_sizes, db_memory,
                   max_power_today, yield_kwh, last_ts, loc, wi, cycles,
                   wstamp, pvSeen, yieldPrev, lastRead>>

\* Lines 127-176: read the clock and compute the iteration.
Tick ==
    /\ pc = "tick"
    /\ cycles < MaxCycles
    /\ LET it == Iteration(clock)
       IN  /\ loc' = it
           /\ last_ts' = it.now
           /\ max_power_today' = MaxStep(max_power_today, it.pv)
           /\ yield_kwh' = YieldStep(yield_kwh, it.pv, it.dt)
           /\ pvSeen' = pvSeen \cup {it.pv}
    /\ yieldPrev' = yield_kwh
    /\ cycles' = cycles + 1
    /\ wi' = 1
    /\ pc' = "write"
    /\ UNCHANGED <<args, clock, sigint, server, db_sizes, db_memory, cycle_s,
                   wstamp, lastRead>>

\* One of the calls of lines 180-203.
WriteTag ==
    /\ pc = "write"
    /\ LET w   == WriteSeq[wi]
           d   == w[1]
           off == tags[d][w[2]]
       IN  IF d \in DOMAIN db_memory /\ InRange(db_memory[d], off)
           THEN /\ db_memory' = [db_memory EXCEPT
                                   ![d] = _write_real_be(@, off, ValueOf(w[3]))]
                /\ wstamp' = [wstamp EXCEPT ![d][off] = cycles]
                /\ wi' = wi + 1
                /\ pc' = IF wi = Len(WriteSeq) THEN "sleep" ELSE "write"
           ELSE /\ pc' = "except"
                /\ UNCHANGED <<db_memory, wstamp, wi>>
    /\ UNCHANGED <<args, clock, sigint, server, db_sizes, max_power_today,
                   yield_kwh, last_ts, cycle_s, loc, cycles, pvSeen,
                   yieldPrev, lastRead>>

\* Line 219: time.sleep(cycle_s) returns after at least cycle_s.
Sleep ==
    /\ pc = "sleep"
    /\ \E t \in Readings(clock + cycle_s) : clock' = t
    /\ pc' = "tick"
    /\ UNCHANGED <<args, sigint, server, db_sizes, db_memory, max_power_today,
                   yield_kwh, last_ts, cycle_s, loc, wi, cycles, wstamp,
                   pvSeen, yieldPrev, lastRead>>

\* The operator's CTRL+C, delivered once: KeyboardInterrupt is raised in main
\* wherever it is inside the try block, time.sleep included (line 221).
TryPcs == {"start", "register", "configure", "tick", "write", "sleep"}

KeyboardInterrupt ==
    /\ ~sigint
    /\ pc \in TryPcs
    /\ sigint' = TRUE
    /\ pc' = "kbi"
    /\ UNCHANGED <<args, clock, server, db_sizes, db_memory, max_power_today,
                   yield_kwh, last_ts, cycle_s, loc, wi, cycles, wstamp,
                   pvSeen, yieldPrev, lastRead>>

\* A handler that swallows the interrupt and goes on with the loop.
HandlerResumes ==
    /\ pc \in {"kbi", "except"}
    /\ pc' = IF pc = "kbi" THEN "tick" ELSE "stop"
    /\ UNCHANGED <<args, clock, sigint, server, db_sizes, db_memory,
                   max_power_today, yield_kwh, last_ts, cycle_s, loc, wi,
                   cycles, wstamp, pvSeen, yieldPrev, lastRead>>

\* Lines 221-224: the handler prints and falls into finally.
Handler ==
    /\ pc \in {"kbi", "except"}
    /\ pc' = "stop"
    /\ UNCHANGED <<args, clock, sigint, server, db_sizes, db_memory,
                   max_power_today, yield_kwh, last_ts, cycle_s, loc, wi,
                   cycles, wstamp, pvSeen, yieldPrev, lastRead>>

\* Line 227
ServerStop ==
    /\ pc = "stop"
    /\ server' = [server EXCEPT !.running = FALSE, !.stop_called = TRUE]
    /\ pc' = "destroy"
    /\ UNCHANGED <<args, clock, sigint, db_sizes, db_memory, max_power_today,
                   yield_kwh, last_ts, cycle_s, loc, wi, cycles, wstamp,
                   pvSeen, yieldPrev, lastRead>>

\* Line 229
ServerDestroy ==
    /\ pc = "destroy"
    /\ server' = [server EXCEPT !.destroyed = TRUE]
    /\ pc' = "done"
    /\ UNCHANGED <<args, clock, sigint, db_sizes, db_memory, max_power_today,
                   yield_kwh, last_ts, cycle_s, loc, wi, cycles, wstamp,
                   pvSeen, yieldPrev, lastRead>>

-----------------------------------------------------------------------------
(* Transport: an S7 client reads one DB area through the running server.  *)
(* An area that is not registered yet answers with an error and no data.  *)

ClientRead ==
    /\ server.running
    /\ \E d \in DBs :
         lastRead' = IF d \in DOMAIN db_memory
                     THEN [db |-> d, ok |-> TRUE, real |-> db_memory[d].real,
                           stamp |-> wstamp[d]]
                     ELSE [db |-> d, ok |-> FALSE, real |-> <<>>,
                           stamp |-> <<>>]
    /\ UNCHANGED <<pc, args, clock, sigint, server, db_sizes, db_memory,
                   max_power_today, yield_kwh, last_ts, cycle_s, loc, wi,
                   cycles, wstamp, pvSeen, yieldPrev>>

-----------------------------------------------------------------------------

Driver ==
    \/ StartServer
    \/ StartServerFails
    \/ RegisterNextDb
    \/ Configure
    \/ Tick
    \/ WriteTag
    \/ Sleep
    \/ Handler
    \/ ServerStop
    \/ ServerDestroy

Next ==
    \/ Driver
    \/ KeyboardInterrupt
    \/ ClientRead

Spec == Init /\ [][Next]_vars

\* The main thread is always scheduled: a driver step that stays possible
\* is eventually taken.
LiveSpec == Init /\ [][Next]_vars /\ WF_vars(Driver)

-----------------------------------------------------------------------------
(* Properties *)

Percent100 == 100 * 1000000

SocOff == tags[51].Carga_Bateria

\* C1: the state of charge computed and written stays in [0,100] and
\* differs from the value read back at the start of the iteration by at
\* most soc_speed = 0.02 * (cycle_s / 0.5); the stored image stays in
\* [0,100] too.
C1_SocBoundedSlew ==
    /\ cycles >= 1 =>
         /\ 0 <= loc.soc /\ loc.soc <= Percent100
         /\ Abs(loc.soc - loc.soc_now) <= loc.soc_speed
         /\ loc.soc_speed = (20000 * Max(1, args.cycle_ms \div 50)) \div 10
    /\ 51 \in DOMAIN db_memory =>
         /\ 0 <= db_memory[51].real[SocOff]
         /\ db_memory[51].real[SocOff] <= Percent100

\* An iteration in which the state of charge fell by the full soc_speed
\* towards a lower target, and was written.
C1_Witness ==
    /\ cycles >= 2
    /\ pc = "sleep"
    /\ loc.soc_target < loc.soc
    /\ loc.soc = loc.soc_now - loc.soc_speed
    /\ db_memory[51].real[SocOff] = F32(loc.soc)

\* C2: on the first iteration, the SoC field never having been written,
\* the aggregator is seeded with the target, so the first SoC is the target.
C2_FirstSeedIsTarget ==
    cycles = 1 => (loc.soc_now = loc.soc_target /\ loc.soc = loc.soc_target)

\* C3: yield_kwh never decreases, and an iteration adds exactly
\* pv * dt / 3_600_000 with pv >= 0 and dt >= 0 the clock difference to the
\* previous reading; an iteration with dt = 0 leaves it unchanged.
C3_YieldAccumulates ==
    [][ /\ yield_kwh' >= yield_kwh
        /\ cycles' # cycles =>
             /\ loc'.pv >= 0
             /\ loc'.dt >= 0
             /\ loc'.dt = loc'.now - last_ts
             /\ yield_kwh' = yield_kwh + loc'.pv * loc'.dt
             /\ (loc'.dt = 0 => yield_kwh' = yield_kwh)
        /\ cycles' = cycles => yield_kwh' = yield_kwh ]_vars

\* A later iteration that added energy to an already positive total.
C3_Witness ==
    /\ cycles >= 2
    /\ yieldPrev > 0
    /\ loc.dt > 0 /\ loc.pv > 0
    /\ yield_kwh = yieldPrev + loc.pv * loc.dt
    /\ wi > 8

\* C4: max_power_today is the maximum of 0 and every pv computed so far,
\* hence at least the pv of the current iteration.
C4_RunningMax ==
    /\ max_power_today = SetMax(pvSeen \cup {0})
    /\ cycles >= 1 => loc.pv <= max_power_today

\* The maximum is held from an earlier iteration.
C4_Witness ==
    /\ cycles >= 2
    /\ loc.pv < max_power_today
    /\ max_power_today > 0

\* C5: a non-positive --cycle-ms is rejected before any block is created;
\* the driver never runs.
C5_NonPositiveRejected ==
    args.cycle_ms <= 0 =>
        /\ DOMAIN db_memory = {}
        /\ pc \notin {"tick", "write", "sleep"}
        /\ cycles = 0

Cancelled == sigint

\* C6: once the interrupt is observed no iteration starts, no tag is
\* written and the sleep is not waited out; the server is destroyed only
\* after it was stopped, and the driver ends with both done.
C6_Cancellation ==
    /\ [][ Cancelled =>
             /\ db_memory' = db_memory
             /\ cycles' = cycles
             /\ clock' = clock
             /\ wi' = wi ]_vars
    /\ [][ (server'.destroyed /\ ~server.destroyed) =>
             (server.stop_called /\ ~server.running) ]_vars
    /\ (Cancelled ~> (pc = "done" /\ server.stop_called /\ ~server.running
                        /\ server.destroyed))

\* The interrupt arrived in the middle of the write pass and the driver
\* has finished.
C6_Witness ==
    /\ sigint
    /\ pc = "done"
    /\ cycles >= 1
    /\ wi > 1 /\ wi <= Len(WriteSeq)
    /\ server.destroyed

ExpectedSize == [d \in DBs |-> CASE d = 49 -> 28 + 4 + 16
                                 [] d = 50 -> 20 + 4 + 16
                                 [] d = 51 -> 12 + 4 + 16
                                 [] d = 52 -> 172 + 4 + 16]

\* C7: every block has the size max(offset) + 4 + 16 from its creation on,
\* every tag fits, and no write ends in an out-of-range error.
C7_BlockSizes ==
    /\ \A d \in DOMAIN db_memory :
         /\ db_memory[d].size = ExpectedSize[d]
         /\ \A o \in Offsets(d) : o + 4 <= db_memory[d].size
    /\ pc = "except" => cycles = 0

\* All four blocks registered and a whole write pass done.
C7_Witness ==
    /\ DOMAIN db_memory = DBs
    /\ cycles >= 2
    /\ pc = "sleep"

NeverWritten(r) == \A o \in DOMAIN r.stamp : r.stamp[o] = 0

\* C8: a read that returns a block no tag of which was written yet returns
\* all zeros.
C8_ZeroFillBeforeFirstWrite ==
    (lastRead.ok /\ NeverWritten(lastRead)) =>
        \A o \in DOMAIN lastRead.real : lastRead.real[o] = 0

\* DB52 was read, still unwritten, while the first write pass has begun.
C8_Witness ==
    /\ lastRead.ok
    /\ lastRead.db = 52
    /\ NeverWritten(lastRead)
    /\ cycles = 1 /\ pc = "write"
    /\ wstamp[51][0] = 1
    /\ \A o \in Offsets(52) : wstamp[52][o] = 0

\* C9: dt of the first iteration is 0; dt of a later one is the clock
\* difference to the previous iteration's start.
C9_FirstDtZero ==
    /\ cycles = 1 => loc.dt = 0
    /\ cycles >= 1 => loc.dt >= 0

PvOff == tags[50].PV_Power_In

MaxOff == tags[50].Max_Power_Today

\* C10: whenever the driver sleeps, every field of every block was written
\* by the iteration just finished and the stored PV_Power_In does not
\* exceed the stored Max_Power_Today (the torn snapshot is the witness).
C10_ConsistentAtSleep ==
    pc = "sleep" =>
        /\ \A d \in DBs : \A o \in Offsets(d) : wstamp[d][o] = cycles
        /\ db_memory[50].real[PvOff] <= db_memory[50].real[MaxOff]

\* One read of DB50 returned PV_Power_In of iteration n with
\* Max_Power_Today of iteration n-1, the former the larger.
C10_TornRead ==
    /\ lastRead.ok
    /\ lastRead.db = 50
    /\ lastRead.stamp[MaxOff] >= 1
    /\ lastRead.stamp[PvOff] = lastRead.stamp[MaxOff] + 1
    /\ lastRead.real[PvOff] > lastRead.real[MaxOff]

====
